---- MODULE Spec2Model ----
(***************************************************************************)
(* Model of the fiscal-period calculation engine of ytd_calculations.py:   *)
(* get_fiscal_year, get_ytd_date_range, calculate_ytd_metrics,             *)
(* calculate_deltas, get_monthly_trends and get_category_performance,      *)
(* together with the pandas / datetime behaviour those functions rely on.  *)
(*                                                                         *)
(* A DataFrame is a record [columns, rows]: columns is the sequence of     *)
(* column labels (labels may repeat, as pandas allows) and every row is a  *)
(* tuple aligned with columns.                                             *)
(***************************************************************************)
EXTENDS Integers, Sequences, FiniteSets, TLC

\* df: the caller's sales table; as_of_date: the as-of argument the caller
\* uses; metrics: the table the caller holds from calculate_ytd_metrics;
\* result: the table returned by the last call; windows: the periods the
\* last metrics computation derived; last: the last call, its argument as
\* it was before the call, and how the call ended.
VARIABLES df, as_of_date, metrics, result, windows, last

vars == <<df, as_of_date, metrics, result, windows, last>>

(* ---------------------------- bounds ----------------------------------- *)
MaxRecords == 2
MinYear == 2020
MaxYear == 2025

(* ---------------------------- dates ------------------------------------ *)
Date(y, m, d) == [year |-> y, month |-> m, day |-> d]

NoDate == Date(0, 0, 0)

IsLeap(y) == (y % 4 = 0) /\ ((y % 100 # 0) \/ (y % 400 = 0))

DaysInMonth(y, m) ==
  IF m = 2 THEN (IF IsLeap(y) THEN 29 ELSE 28)
  ELSE IF m \in {4, 6, 9, 11} THEN 30 ELSE 31

DaysBeforeMonth(y, m) ==
  LET t == <<0, 31, 59, 90, 120, 151, 181, 212, 243, 273, 304, 334>>
  IN t[m] + (IF m > 2 /\ IsLeap(y) THEN 1 ELSE 0)

\* datetime.toordinal(): proleptic Gregorian ordinal, 0001-01-01 is day 1
ToOrdinal(dt) ==
  LET y == dt.year - 1
  IN y * 365 + (y \div 4) - (y \div 100) + (y \div 400)
     + DaysBeforeMonth(dt.year, dt.month) + dt.day

\* datetime.fromordinal(): the inverse, computed as CPython's _ord2ymd does
FromOrdinal(ord) ==
  LET n0   == ord - 1
      n400 == n0 \div 146097
      r400 == n0 % 146097
      n100 == r400 \div 36524
      r100 == r400 % 36524
      n4   == r100 \div 1461
      r4   == r100 % 1461
      n1   == r4 \div 365
      n    == r4 % 365
      year == n400 * 400 + 1 + n100 * 100 + n4 * 4 + n1
      leapyear == (n1 = 3) /\ ((n4 # 24) \/ (n100 = 3))
      m0   == (n + 50) \div 32
      adj(m) == IF m > 2 /\ leapyear THEN 1 ELSE 0
      t    == <<0, 31, 59, 90, 120, 151, 181, 212, 243, 273, 304, 334>>
      p0   == t[m0] + adj(m0)
      month == IF p0 > n THEN m0 - 1 ELSE m0
      preceding == t[month] + adj(month)
  IN IF n1 = 4 \/ n100 = 4
     THEN Date(year - 1, 12, 31)
     ELSE Date(year, month, n - preceding + 1)

\* dt - timedelta(days=k)
MinusDays(dt, k) == FromOrdinal(ToOrdinal(dt) - k)

\* datetime comparison: lexicographic on (year, month, day)
DateLE(a, b) ==
  \/ a.year < b.year
  \/ a.year = b.year /\ a.month < b.month
  \/ a.year = b.year /\ a.month = b.month /\ a.day <= b.day

AllDates ==
  { Date(y, m, d) : y \in MinYear..MaxYear, m \in 1..12, d \in 1..31 }
  \ { dt \in [year : MinYear..MaxYear, month : 1..12, day : 29..31] :
        dt.day > DaysInMonth(dt.year, dt.month) }

(* ------------------- cells of a date column ----------------------------- *)
\* kind "str": a string holding a valid date; "blank": "" / None / "NaT";
\* "garbage": a string no parser accepts; "ts": a Timestamp; "NaT": pandas
\* not-a-time; "None": the Python value None (argument default).
Cell(k, dt) == [kind |-> k, date |-> dt]

NaT == Cell("NaT", NoDate)

None == Cell("None", NoDate)

Ts(dt) == Cell("ts", dt)

(* ------------------- fiscal calendar ------------------------------------ *)
\* the label f"FY {fy_start}-{str(fy_end)[-2:]}": fy_start printed in full,
\* followed by the last two decimal digits of fy_end
FYLabel(fy_start, fy_end) ==
  [tag |-> "FY", fy_start |-> fy_start,
   suffix |-> <<(fy_end \div 10) % 10, fy_end % 10>>]

\* get_fiscal_year(NaT): NaT.month and NaT.year are nan, every comparison
\* with nan is False, the label is the string "FY nan-an"
FYNaN == [tag |-> "FY nan-an", fy_start |-> 0, suffix |-> <<>>]

get_fiscal_year(date) ==
  IF date.kind = "NaT" THEN FYNaN
  ELSE IF date.date.month >= 4
       THEN FYLabel(date.date.year, date.date.year + 1)
       ELSE FYLabel(date.date.year - 1, date.date.year)

\* variant: the fiscal year always starts in the calendar year of the date
get_ytd_date_range_calendar_year(a) ==
  <<Date(a.year, 4, 1), a>>

get_ytd_date_range(a) ==
  IF a.month >= 4
  THEN <<Date(a.year, 4, 1), a>>
  ELSE <<Date(a.year - 1, 4, 1), a>>

Window(s, e) == [start |-> s, end |-> e]

NoWindows ==
  [set |-> FALSE, ytd |-> Window(NoDate, NoDate),
   pytd |-> Window(NoDate, NoDate), p1ytd |-> Window(NoDate, NoDate),
   current_fy |-> FYNaN]

\* variant: the end of the PYTD period is shifted by 366 days
PeriodWindowsUnevenShift(a) ==
  LET r == get_ytd_date_range(a)
  IN [set |-> TRUE,
      ytd |-> Window(r[1], r[2]),
      pytd |-> Window(MinusDays(r[1], 365), MinusDays(r[2], 366)),
      p1ytd |-> Window(MinusDays(r[1], 730), MinusDays(r[2], 730)),
      current_fy |-> get_fiscal_year(Ts(a))]

\* lines 76-87 of calculate_ytd_metrics: the three comparison periods
PeriodWindows(a) ==
  LET r == get_ytd_date_range(a)
  IN [set |-> TRUE,
      ytd |-> Window(r[1], r[2]),
      pytd |-> Window(MinusDays(r[1], 365), MinusDays(r[2], 365)),
      p1ytd |-> Window(MinusDays(r[1], 730), MinusDays(r[2], 730)),
      current_fy |-> get_fiscal_year(Ts(a))]

(* ------------------- float cells ---------------------------------------- *)
\* a float64 cell: a rational num/den (den > 0), nan, inf or -inf
Num(v) == [tag |-> "num", num |-> v, den |-> 1]

NaN == [tag |-> "nan", num |-> 0, den |-> 1]

Inf == [tag |-> "inf", num |-> 0, den |-> 1]

NegInf == [tag |-> "-inf", num |-> 0, den |-> 1]

\* a - b on totals (finite or nan)
FSub(a, b) ==
  IF a.tag = "nan" \/ b.tag = "nan" THEN NaN
  ELSE [tag |-> "num", num |-> a.num * b.den - b.num * a.den,
        den |-> a.den * b.den]

\* a / b, IEEE-754: x/0 is +-inf for x # 0 and nan for x = 0
FDiv(a, b) ==
  IF a.tag = "nan" \/ b.tag = "nan" THEN NaN
  ELSE IF b.num = 0
       THEN (IF a.num = 0 THEN NaN ELSE IF a.num > 0 THEN Inf ELSE NegInf)
       ELSE IF b.num > 0
            THEN [tag |-> "num", num |-> a.num * b.den, den |-> a.den * b.num]
            ELSE [tag |-> "num", num |-> 0 - a.num * b.den,
                  den |-> 0 - a.den * b.num]

\* a * k for an integer k > 0
FMul(a, k) ==
  IF a.tag = "num" THEN [a EXCEPT !.num = a.num * k] ELSE a

FAbs(a) ==
  IF a.tag = "num" /\ a.num < 0 THEN [a EXCEPT !.num = 0 - a.num]
  ELSE IF a.tag = "-inf" THEN Inf ELSE a

\* Series.replace([inf, -inf], 0)
ReplaceInf(a) == IF a.tag \in {"inf", "-inf"} THEN Num(0) ELSE a

(* ------------------- DataFrame primitives -------------------------------- *)
Table(cols, rows) == [columns |-> cols, rows |-> rows]

NoTable == Table(<<>>, <<>>)

SalesColumns == <<"date", "product_name", "sales_amount", "quantity">>

ColIdx(t, name) == { i \in 1..Len(t.columns) : t.columns[i] = name }

\* position of a label that occurs exactly once
Pos(t, name) == CHOOSE i \in ColIdx(t, name) : TRUE

\* the cell of row i in the column labelled name
Get(t, i, name) == t.rows[i][Pos(t, name)]

\* df[name] as a sequence of cells
Column(t, name) == [i \in 1..Len(t.rows) |-> t.rows[i][Pos(t, name)]]

\* df[name] = values: overwrite the column, or append it when it is new
SetColumn(t, name, values) ==
  IF ColIdx(t, name) = {}
  THEN Table(Append(t.columns, name),
             [i \in 1..Len(t.rows) |-> Append(t.rows[i], values[i])])
  ELSE Table(t.columns,
             [i \in 1..Len(t.rows) |->
                [j \in 1..Len(t.columns) |->
                   IF t.columns[j] = name THEN values[i] ELSE t.rows[i][j]]])

\* df.rename(columns={old: new}): relabels, never merges or drops a column
Rename(t, old, new) ==
  Table([j \in 1..Len(t.columns) |->
           IF t.columns[j] = old THEN new ELSE t.columns[j]], t.rows)

\* pd.to_datetime on one cell; an unparsable string makes the call raise
to_datetime(c) == IF c.kind \in {"str", "ts"} THEN Ts(c.date) ELSE NaT

ToDatetimeRaises(t) ==
  \E i \in 1..Len(t.rows) : t.rows[i][Pos(t, "date")].kind = "garbage"

\* Series.max() of a datetime column: NaT is skipped, NaT when nothing is left
MaxDate(col) ==
  LET valid == { i \in 1..Len(col) : col[i].kind = "ts" }
  IN IF valid = {} THEN NaT
     ELSE col[CHOOSE i \in valid :
                \A j \in valid : DateLE(col[j].date, col[i].date)]

\* variant: the last day of the period is left out
InWindowEndExclusive(c, w) ==
  c.kind = "ts" /\ DateLE(w.start, c.date) /\ DateLE(c.date, w.end)
  /\ c.date # w.end

\* (df['date'] >= start) & (df['date'] <= end); NaT compares False
InWindow(c, w) ==
  c.kind = "ts" /\ DateLE(w.start, c.date) /\ DateLE(c.date, w.end)

\* df[mask] for the period mask
FilterWindow(t, w) ==
  Table(t.columns,
        SelectSeq(t.rows, LAMBDA r : InWindow(r[Pos(t, "date")], w)))

\* lexicographic order of the group keys that occur
KeyOrder == <<"A", "B", "X", "Y">>

\* a missing (NaN) value in a string column
NaNKey == "NaN"

RECURSIVE SumFrom(_, _, _)
SumFrom(rows, j, i) ==
  IF i > Len(rows) THEN 0 ELSE rows[i][j] + SumFrom(rows, j, i + 1)

\* sum of column j over a sequence of rows
SumCol(rows, j) == SumFrom(rows, j, 1)

\* groupby(key).agg({'sales_amount': 'sum', 'quantity': 'sum'})
\* .reset_index() with the columns renamed: keys sorted, NaN keys dropped
GroupSum(t, key, salesName, qtyName) ==
  LET k == Pos(t, key)
      present == { t.rows[i][k] : i \in 1..Len(t.rows) }
      keys == SelectSeq(KeyOrder, LAMBDA p : p \in present)
      grp(p) == SelectSeq(t.rows, LAMBDA r : r[k] = p)
  IN Table(<<key, salesName, qtyName>>,
           [n \in 1..Len(keys) |->
              <<keys[n], Num(SumCol(grp(keys[n]), Pos(t, "sales_amount"))),
                Num(SumCol(grp(keys[n]), Pos(t, "quantity")))>>])

KeysOf(t, on) == { t.rows[i][Pos(t, on)] : i \in 1..Len(t.rows) }

RowOf(t, on, k) == t.rows[CHOOSE i \in 1..Len(t.rows) : t.rows[i][Pos(t, on)] = k]

\* the cells of t's non-key columns for key k, NaN where t has no such row
ValuesFor(t, on, k) ==
  LET idx == SelectSeq([j \in 1..Len(t.columns) |-> j],
                       LAMBDA j : t.columns[j] # on)
  IN [n \in 1..Len(idx) |->
        IF k \in KeysOf(t, on) THEN RowOf(t, on, k)[idx[n]] ELSE NaN]

MergeOn(l, r, on, keyset) ==
  LET keys == SelectSeq(KeyOrder, LAMBDA p : p \in keyset)
  IN Table(<<on>> \o SelectSeq(l.columns, LAMBDA c : c # on)
                  \o SelectSeq(r.columns, LAMBDA c : c # on),
           [n \in 1..Len(keys) |->
              <<keys[n]>> \o ValuesFor(l, on, keys[n])
                          \o ValuesFor(r, on, keys[n])])

\* variant: how='left', the keys of the right frame alone are lost
MergeLeftJoin(l, r, on) == MergeOn(l, r, on, KeysOf(l, on))

\* l.merge(r, on=on, how='outer') for frames whose keys are unique (they are
\* groupby results) and whose key is the first column
Merge(l, r, on) == MergeOn(l, r, on, KeysOf(l, on) \union KeysOf(r, on))

\* the columns that hold strings; NaN never occurs in them after a groupby
StringColumns == {"product_name", "category"}

\* df.fillna(0)
FillNa(t) ==
  Table(t.columns,
        [i \in 1..Len(t.rows) |->
           [j \in 1..Len(t.columns) |->
              IF t.columns[j] \in StringColumns THEN t.rows[i][j]
              ELSE IF t.rows[i][j].tag = "nan" THEN Num(0)
              ELSE t.rows[i][j]]])

Const(t, v) == [i \in 1..Len(t.rows) |-> v]

(* ------------------- calculate_ytd_metrics ------------------------------- *)
\* Result of a call: status is "ok" or the exception raised, arg is the
\* caller's table as the call leaves it, ret the returned table.
Outcome(st, a, r, w) == [status |-> st, arg |-> a, ret |-> r, windows |-> w]

\* the value of a local that is assigned once
Only(S) == CHOOSE x \in S : TRUE

\* line 69: df['date'] = pd.to_datetime(df['date'])
ParseDates(t) ==
  SetColumn(t, "date", [i \in 1..Len(t.rows) |-> to_datetime(Get(t, i, "date"))])

\* lines 118-127: the two outer merges, fillna(0) and the two metadata columns
Assemble(ytd_summary, pytd_summary, p1ytd_summary, a, current_fy) ==
  Only({ SetColumn(SetColumn(m3, "as_of_date", Const(m3, a)),
                   "fiscal_year", Const(m3, current_fy)) :
           m3 \in { FillNa(m2) :
                      m2 \in { Merge(m1, p1ytd_summary, "product_name") :
                                 m1 \in {Merge(ytd_summary, pytd_summary,
                                               "product_name")} } } })

\* lines 94-129, with the parsed table d1, the as-of date a and the periods w
MetricsIn(d1, a, w) ==
  IF Cardinality(ColIdx(d1, "product_name")) # 1
  THEN Outcome("ValueError", d1, NoTable, w)
  ELSE Only({ Outcome("ok", d1, Assemble(y, p, q, a, w.current_fy), w) :
                y \in {GroupSum(FilterWindow(d1, w.ytd), "product_name",
                                "ytd_sales", "ytd_quantity")},
                p \in {GroupSum(FilterWindow(d1, w.pytd), "product_name",
                                "pytd_sales", "pytd_quantity")},
                q \in {GroupSum(FilterWindow(d1, w.p1ytd), "product_name",
                                "p1ytd_sales", "p1ytd_quantity")} })

\* lines 75-92: datetime(nan, 4, 1) raises TypeError when the as-of date is NaT
MetricsAsOf(d1, a) ==
  IF a.kind = "NaT"
  THEN Outcome("TypeError", d1, NoTable, NoWindows)
  ELSE Only({ MetricsIn(d1, a, w) : w \in {PeriodWindows(a.date)} })

calculate_ytd_metrics(t, as_of) ==
  IF ToDatetimeRaises(t) THEN Outcome("ValueError", t, NoTable, NoWindows)
  ELSE Only({ Only({ MetricsAsOf(d1, a) :
                       a \in {IF as_of.kind = "None"
                              THEN MaxDate(Column(d1, "date")) ELSE as_of} }) :
                d1 \in {ParseDates(t)} })

(* ------------------- calculate_deltas ------------------------------------ *)
Performance(x) ==
  IF x.tag = "num" /\ x.num > 0 THEN "Growing"
  ELSE IF x.tag = "num" /\ x.num < 0 THEN "Declining"
  ELSE "Stable"

\* ((a - b) / b * 100).replace([inf, -inf], 0)
GrowthPct(a, b) == ReplaceInf(FMul(FDiv(FSub(a, b), b), 100))

DeltaColumns ==
  <<"delta_ytd_pytd", "delta_ytd_p1ytd", "delta_pytd_p1ytd",
    "growth_ytd_vs_pytd_pct", "growth_ytd_vs_p1ytd_pct",
    "qty_delta_ytd_pytd", "qty_delta_ytd_p1ytd", "abs_delta_ytd_pytd",
    "performance">>

\* the cells lines 145-163 add to row i, in the order of DeltaColumns
DeltaCells(m, i) ==
  LET ytd == Get(m, i, "ytd_sales")
      pytd == Get(m, i, "pytd_sales")
      p1ytd == Get(m, i, "p1ytd_sales")
  IN <<FSub(ytd, pytd), FSub(ytd, p1ytd), FSub(pytd, p1ytd),
       GrowthPct(ytd, pytd), GrowthPct(ytd, p1ytd),
       FSub(Get(m, i, "ytd_quantity"), Get(m, i, "pytd_quantity")),
       FSub(Get(m, i, "ytd_quantity"), Get(m, i, "p1ytd_quantity")),
       FAbs(FSub(ytd, pytd)), Performance(FSub(ytd, pytd))>>

\* the columns are new to a table of calculate_ytd_metrics, so each
\* assignment appends one
calculate_deltas(m) ==
  Outcome("ok", m,
          Table(m.columns \o DeltaColumns,
                [i \in 1..Len(m.rows) |-> m.rows[i] \o DeltaCells(m, i)]),
          NoWindows)

(* ------------------- get_monthly_trends ---------------------------------- *)
\* Timestamp.to_period('M'); NaT stays NaT
ToPeriod(c) ==
  IF c.kind = "ts" THEN Cell("period", Date(c.date.year, c.date.month, 1))
  ELSE NaT

\* Period.to_timestamp(): the first day of the month
ToTimestamp(c) == IF c.kind = "period" THEN Ts(c.date) ELSE NaT

KeyIndex(p) == CHOOSE i \in 1..Len(KeyOrder) : KeyOrder[i] = p

\* order of the (year_month, fiscal_year, product_name) group keys; the
\* fiscal year is a function of the month, so it never decides
TrendKeyLE(x, y) ==
  \/ x[1].date # y[1].date /\ DateLE(x[1].date, y[1].date)
  \/ x[1].date = y[1].date /\ KeyIndex(x[3]) <= KeyIndex(y[3])

RECURSIVE SortKeys(_)
SortKeys(S) ==
  IF S = {} THEN <<>>
  ELSE Only({ Only({ <<least>> \o SortKeys(rest) : rest \in {S \ {least}} }) :
                least \in { x \in S : \A y \in S : TrendKeyLE(x, y) } })

\* lines 179-180: the two columns added to the caller's table
AddMonthColumns(d1) ==
  Only({ SetColumn(d2, "fiscal_year",
                   [i \in 1..Len(d2.rows) |-> get_fiscal_year(Get(d2, i, "date"))]) :
           d2 \in {SetColumn(d1, "year_month",
                             [i \in 1..Len(d1.rows) |-> ToPeriod(Get(d1, i, "date"))])} })

TrendKey(t, r) ==
  <<r[Pos(t, "year_month")], r[Pos(t, "fiscal_year")], r[Pos(t, "product_name")]>>

\* lines 182-187: groupby drops the rows whose year_month key is missing,
\* sorts the keys and sums each group
MonthlyOf(d3) ==
  Only({ Table(<<"year_month", "fiscal_year", "product_name",
                 "sales_amount", "quantity">>,
               [n \in 1..Len(keys) |->
                  <<ToTimestamp(keys[n][1]), keys[n][2], keys[n][3],
                    Num(SumCol(SelectSeq(kept, LAMBDA r : TrendKey(d3, r) = keys[n]),
                               Pos(d3, "sales_amount"))),
                    Num(SumCol(SelectSeq(kept, LAMBDA r : TrendKey(d3, r) = keys[n]),
                               Pos(d3, "quantity")))>>]) :
           kept \in {SelectSeq(d3.rows,
                               LAMBDA r : r[Pos(d3, "year_month")].kind = "period")},
           keys \in {SortKeys({ TrendKey(d3, d3.rows[i]) :
                                  i \in { k \in 1..Len(d3.rows) :
                                            Get(d3, k, "year_month").kind = "period" } })} })

get_monthly_trends(t) ==
  IF ToDatetimeRaises(t) THEN Outcome("ValueError", t, NoTable, NoWindows)
  ELSE Only({ Outcome("ok", d3, MonthlyOf(d3), NoWindows) :
                d3 \in { AddMonthColumns(d1) : d1 \in {ParseDates(t)} } })

(* ------------------- get_category_performance ---------------------------- *)
\* Series.map(dict): the mapped value, NaN for a key the dict lacks
MapCategory(p, product_category_map) ==
  IF p \in DOMAIN product_category_map THEN product_category_map[p] ELSE NaNKey

\* lines 204-205: the copy of the table with the category column
WithCategory(t, product_category_map) ==
  SetColumn(t, "category",
            [i \in 1..Len(t.rows) |->
               MapCategory(Get(t, i, "product_name"), product_category_map)])

get_category_performance(t, product_category_map) ==
  Only({ IF r.status # "ok"
         THEN Outcome(r.status, t, NoTable, r.windows)
         ELSE Outcome("ok", t,
                      Rename(calculate_deltas(r.ret).ret, "product_name", "category"),
                      r.windows) :
           r \in { calculate_ytd_metrics(renamed, None) :
                     renamed \in {Rename(WithCategory(t, product_category_map),
                                         "category", "product_name")} } })

(* ------------------- inputs ---------------------------------------------- *)
AsOfChoices == {None, Ts(Date(2024, 3, 31))}

CategoryMaps ==
  { ("A" :> "X") @@ ("B" :> "Y"), ("A" :> "X") }

\* date cells of a sales log read from text
TextCells ==
  <<Cell("str", Date(2021, 6, 15)), Cell("str", Date(2022, 6, 15)),
    Cell("str", Date(2023, 4, 1)), Cell("str", Date(2024, 3, 31)),
    Cell("blank", NoDate), Cell("garbage", NoDate)>>

\* (product_name, sales_amount, quantity) of a transaction line
SaleLines == << <<"A", 100, 1>>, <<"A", 50, 2>>, <<"B", 50, 2>> >>

\* the n-th candidate row: every combination of date cell and sale line
RowChoice(n) ==
  LET c == TextCells[((n - 1) \div Len(SaleLines)) + 1]
      s == SaleLines[((n - 1) % Len(SaleLines)) + 1]
  IN <<c, s[1], s[2], s[3]>>

\* the sales logs with at most MaxRecords records, one per multiset of rows
\* (no result depends on the row order of the log: every result is grouped
\* and sorted by key)
InputLogs ==
  UNION { { [i \in 1..k |-> RowChoice(f[i])] :
              f \in { g \in [1..k -> 1..(Len(TextCells) * Len(SaleLines))] :
                        \A i \in 1..k : \A j \in 1..k : i < j => g[i] <= g[j] } } :
          k \in 0..MaxRecords }

InputTables == { Table(SalesColumns, rows) : rows \in InputLogs }

NoCall == [op |-> "none", status |-> "none", arg |-> NoTable, map |-> <<>>]

Call(op, st, arg, map) == [op |-> op, status |-> st, arg |-> arg, map |-> map]

(* ------------------- the state machine ----------------------------------- *)
Init ==
  /\ df \in InputTables
  /\ as_of_date \in AsOfChoices
  /\ metrics = NoTable
  /\ result = NoTable
  /\ windows = NoWindows
  /\ last = NoCall

\* every as-of date of the calendar, on a sales log without records
InitDates ==
  /\ df = Table(SalesColumns, <<>>)
  /\ as_of_date \in { Ts(d) : d \in AllDates }
  /\ metrics = NoTable
  /\ result = NoTable
  /\ windows = NoWindows
  /\ last = NoCall

\* metrics = calculate_ytd_metrics(df, as_of_date)
CalculateYtdMetrics ==
  \E r \in {calculate_ytd_metrics(df, as_of_date)} :
     /\ df' = r.arg
     /\ metrics' = IF r.status = "ok" THEN r.ret ELSE metrics
     /\ result' = r.ret
     /\ windows' = r.windows
     /\ last' = Call("calculate_ytd_metrics", r.status, df, <<>>)
     /\ UNCHANGED as_of_date

\* result = calculate_deltas(metrics)
CalculateDeltas ==
  /\ metrics # NoTable
  /\ \E r \in {calculate_deltas(metrics)} :
        /\ metrics' = r.arg
        /\ result' = r.ret
        /\ last' = Call("calculate_deltas", r.status, metrics, <<>>)
        /\ UNCHANGED <<df, as_of_date, windows>>

\* result = get_monthly_trends(df)
GetMonthlyTrends ==
  \E r \in {get_monthly_trends(df)} :
     /\ df' = r.arg
     /\ result' = r.ret
     /\ last' = Call("get_monthly_trends", r.status, df, <<>>)
     /\ UNCHANGED <<as_of_date, metrics, windows>>

\* result = get_category_performance(df, product_category_map)
GetCategoryPerformance ==
  \E m \in CategoryMaps :
    \E r \in {get_category_performance(df, m)} :
       /\ df' = r.arg
       /\ result' = r.ret
       /\ windows' = r.windows
       /\ last' = Call("get_category_performance", r.status, df, m)
       /\ UNCHANGED <<as_of_date, metrics>>

Next ==
  \/ CalculateYtdMetrics
  \/ CalculateDeltas
  \/ GetMonthlyTrends
  \/ GetCategoryPerformance

Spec == Init /\ [][Next]_vars

SpecDates == InitDates /\ [][Next]_vars

(* ------------------- vocabulary of the properties ------------------------ *)
Rows(t) == 1..Len(t.rows)

Returned(op) == last.op = op /\ last.status = "ok"

\* days since 1 January of the year three before MinYear, counted year by
\* year and month by month
EpochYear == MinYear - 3

RECURSIVE YearDays(_)
YearDays(y) ==
  IF y <= EpochYear THEN 0
  ELSE YearDays(y - 1) + (IF IsLeap(y - 1) THEN 366 ELSE 365)

RECURSIVE MonthDays(_, _)
MonthDays(y, m) ==
  IF m <= 1 THEN 0 ELSE MonthDays(y, m - 1) + DaysInMonth(y, m - 1)

DayCount(dt) == YearDays(dt.year) + MonthDays(dt.year, dt.month) + dt.day

\* a record of the log lies in a period, both ends included
Within(c, w) ==
  c.kind = "ts" /\ DayCount(w.start) <= DayCount(c.date)
                /\ DayCount(c.date) <= DayCount(w.end)

Periods == {"ytd", "pytd", "p1ytd"}

PeriodOf(name) ==
  IF name = "ytd" THEN windows.ytd
  ELSE IF name = "pytd" THEN windows.pytd ELSE windows.p1ytd

SalesCol(name) ==
  IF name = "ytd" THEN "ytd_sales"
  ELSE IF name = "pytd" THEN "pytd_sales" ELSE "p1ytd_sales"

QtyCol(name) ==
  IF name = "ytd" THEN "ytd_quantity"
  ELSE IF name = "pytd" THEN "pytd_quantity" ELSE "p1ytd_quantity"

\* the rows of the log (by index) of product p that lie in period w
Hits(p, w) ==
  { i \in Rows(df) : Get(df, i, "product_name") = p /\ Within(Get(df, i, "date"), w) }

RECURSIVE SumOver(_, _)
SumOver(I, col) ==
  IF I = {} THEN 0
  ELSE LET i == CHOOSE x \in I : TRUE
       IN Get(df, i, col) + SumOver(I \ {i}, col)

ProductNames == {"A", "B"}

\* a table as the set of its rows, each row a function of the column label
RowSet(t) ==
  { [c \in { t.columns[j] : j \in 1..Len(t.columns) } |-> Get(t, i, c)] : i \in Rows(t) }

Summary(name) ==
  GroupSum(FilterWindow(df, PeriodOf(name)), "product_name", SalesCol(name), QtyCol(name))

\* the metrics table without the two metadata columns
Core(t) ==
  { [c \in DOMAIN r \ {"as_of_date", "fiscal_year"} |-> r[c]] : r \in RowSet(t) }

(* ------------------- C1 -------------------------------------------------- *)
\* C1: in the table calculate_deltas returns, every row whose pytd_sales is 0
\* has growth_ytd_vs_pytd_pct exactly 0, whatever ytd_sales is (0 included),
\* and every row whose p1ytd_sales is 0 has growth_ytd_vs_p1ytd_pct exactly 0;
\* the value is never infinite or undefined.
C1_GrowthFallbackIsZero ==
  Returned("calculate_deltas") =>
    \A i \in Rows(result) :
      /\ Get(result, i, "pytd_sales") = Num(0)
           => Get(result, i, "growth_ytd_vs_pytd_pct") = Num(0)
      /\ Get(result, i, "p1ytd_sales") = Num(0)
           => Get(result, i, "growth_ytd_vs_p1ytd_pct") = Num(0)

(* ------------------- C2 -------------------------------------------------- *)
\* C2: the products of the table calculate_ytd_metrics returns are exactly the
\* products with at least one record in the YTD, PYTD or P1YTD period, one row
\* each; the sales and quantity of a product without a record in a period are
\* 0; merging the three summaries in another order gives the same rows.
C2_OuterJoinUnion ==
  Returned("calculate_ytd_metrics") =>
    /\ { Get(result, i, "product_name") : i \in Rows(result) }
         = { p \in ProductNames : \E n \in Periods : Hits(p, PeriodOf(n)) # {} }
    /\ \A i \in Rows(result) : \A j \in Rows(result) :
         Get(result, i, "product_name") = Get(result, j, "product_name") => i = j
    /\ \A i \in Rows(result) : \A n \in Periods :
         Hits(Get(result, i, "product_name"), PeriodOf(n)) = {}
           => /\ Get(result, i, SalesCol(n)) = Num(0)
              /\ Get(result, i, QtyCol(n)) = Num(0)
    /\ \A a \in Periods : \A b \in Periods \ {a} : \A c \in Periods \ {a, b} :
         RowSet(FillNa(Merge(Merge(Summary(a), Summary(b), "product_name"),
                             Summary(c), "product_name")))
           = Core(result)

\* a returned table with two products, one of them absent from a period
C2_Witness ==
  /\ Returned("calculate_ytd_metrics")
  /\ Len(result.rows) = 2
  /\ \E i \in Rows(result) : \E n \in Periods :
       /\ Hits(Get(result, i, "product_name"), PeriodOf(n)) = {}
       /\ \E k \in Periods : Hits(Get(result, i, "product_name"), PeriodOf(k)) # {}

(* ------------------- C3 -------------------------------------------------- *)
\* C3: after a call of calculate_ytd_metrics, calculate_deltas,
\* get_monthly_trends or get_category_performance the table the caller passed
\* has the columns and the values it had before the call.
C3_NoStageMutatesInput ==
  /\ last.op \in {"calculate_ytd_metrics", "get_monthly_trends",
                  "get_category_performance"} => df = last.arg
  /\ last.op = "calculate_deltas" => metrics = last.arg

(* ------------------- C4 -------------------------------------------------- *)
WellFormed(t) ==
  /\ t.rows # <<>>
  /\ \A i \in Rows(t) : Get(t, i, "date").kind \in {"str", "ts"}

\* the log with every product name replaced by its category, the records of
\* unmapped products left out
ByCategory(t, map) ==
  LET kept == SelectSeq(t.rows, LAMBDA r : r[Pos(t, "product_name")] \in DOMAIN map)
  IN Table(t.columns,
           [i \in 1..Len(kept) |->
              [j \in 1..Len(t.columns) |->
                 IF t.columns[j] = "product_name" THEN map[kept[i][j]]
                 ELSE kept[i][j]]])

\* C4: on a well-formed log get_category_performance ends without error and
\* returns, per category, the period totals of the records of the products
\* mapped to it, with the deltas, growth and performance of calculate_deltas.
C4_CategoryRollup ==
  (last.op = "get_category_performance" /\ WellFormed(last.arg)) =>
    /\ last.status = "ok"
    /\ RowSet(result)
         = RowSet(Rename(calculate_deltas(
                           calculate_ytd_metrics(ByCategory(last.arg, last.map),
                                                 None).ret).ret,
                         "product_name", "category"))

(* ------------------- C5 -------------------------------------------------- *)
\* C5: the YTD period ends on the as-of date, starts no later than it, and
\* starts on 1 April of the start year of the fiscal year get_fiscal_year
\* gives the as-of date: the year before for January-March, the year itself
\* for April-December.
C5_YtdRangeMatchesFiscalYear ==
  (windows.set /\ as_of_date.kind = "ts") =>
    LET a == as_of_date.date
        fy == get_fiscal_year(as_of_date)
    IN /\ windows.ytd.end = a
       /\ DayCount(windows.ytd.start) <= DayCount(a)
       /\ windows.ytd.start = Date(fy.fy_start, 4, 1)
       /\ fy.fy_start = (IF a.month \in 1..3 THEN a.year - 1 ELSE a.year)
       /\ windows.current_fy = fy

\* the periods were derived for an as-of date in January-March
C5_Witness ==
  /\ windows.set
  /\ as_of_date.kind = "ts"
  /\ as_of_date.date.month \in 1..3
  /\ last.op = "calculate_ytd_metrics"

SubLog(I) ==
  LET F[k \in 0..Len(df.rows)] ==
        IF k = 0 THEN <<>>
        ELSE IF k \in I THEN Append(F[k - 1], df.rows[k]) ELSE F[k - 1]
  IN Table(df.columns, F[Len(df.rows)])

\* total of product p in the summary of period n over the records I
\* (j = 2: sales, j = 3: quantity); 0 when the summary has no row for p
AggTotal(I, n, p, j) ==
  LET s == GroupSum(FilterWindow(SubLog(I), PeriodOf(n)), "product_name",
                    SalesCol(n), QtyCol(n))
  IN IF p \in KeysOf(s, "product_name")
     THEN RowOf(s, "product_name", p)[j].num ELSE 0

\* C7: for every period and every split of the log into two disjoint sets of
\* records, the per-product sales and quantity totals of the whole log are the
\* sums of the totals of the two parts (0 for a product a part lacks); the
\* totals count exactly the records with start <= date <= end.
C7_AggregationAdditive ==
  Returned("calculate_ytd_metrics") =>
    /\ \A n \in Periods : \A p \in ProductNames : \A j \in {2, 3} :
         \A I \in SUBSET Rows(df) :
           AggTotal(Rows(df), n, p, j)
             = AggTotal(I, n, p, j) + AggTotal(Rows(df) \ I, n, p, j)
    /\ \A n \in Periods : \A i \in Rows(result) :
         LET hits == Hits(Get(result, i, "product_name"), PeriodOf(n))
         IN /\ Get(result, i, SalesCol(n)) = Num(SumOver(hits, "sales_amount"))
            /\ Get(result, i, QtyCol(n)) = Num(SumOver(hits, "quantity"))

\* a product with two records in one period, one of them on the period's
\* last day
C7_Witness ==
  /\ Returned("calculate_ytd_metrics")
  /\ \E n \in Periods : \E p \in ProductNames :
       /\ Cardinality(Hits(p, PeriodOf(n))) >= 2
       /\ \E i \in Hits(p, PeriodOf(n)) : Get(df, i, "date").date = PeriodOf(n).end

(* ------------------- C8 -------------------------------------------------- *)
Malformed(t) ==
  \E i \in Rows(t) : Get(t, i, "date").kind \in {"blank", "garbage"}

\* C8: when a record of the log has a malformed or unparsable date,
\* calculate_ytd_metrics and get_monthly_trends fail with an error surfaced to
\* the caller and return no table; the record is not skipped.
C8_MalformedDateFails ==
  (last.op \in {"calculate_ytd_metrics", "get_monthly_trends"}
     /\ Malformed(last.arg)) =>
    /\ last.status # "ok"
    /\ result = NoTable

(* ------------------- C9 -------------------------------------------------- *)
\* C9: the PYTD period starts on 1 April of the fiscal year before the fiscal
\* year of the as-of date and the P1YTD period on 1 April of the fiscal year
\* two before it, and each of the two periods lies inside that one fiscal year
\* (its first and its last day carry that fiscal year's label).
C9_SamePeriodInEarlierFiscalYear ==
  (windows.set /\ as_of_date.kind = "ts") =>
    LET fy == windows.current_fy.fy_start
    IN /\ windows.pytd.start = Date(fy - 1, 4, 1)
       /\ windows.p1ytd.start = Date(fy - 2, 4, 1)
       /\ get_fiscal_year(Ts(windows.pytd.start)) = FYLabel(fy - 1, fy)
       /\ get_fiscal_year(Ts(windows.pytd.end)) = FYLabel(fy - 1, fy)
       /\ get_fiscal_year(Ts(windows.p1ytd.start)) = FYLabel(fy - 2, fy - 1)
       /\ get_fiscal_year(Ts(windows.p1ytd.end)) = FYLabel(fy - 2, fy - 1)

(* ------------------- C10 ------------------------------------------------- *)
\* C10: the YTD, PYTD and P1YTD periods are pairwise disjoint, no record of
\* the log lies in more than one of them, and for every product
\* ytd_sales + pytd_sales + p1ytd_sales is at most the sum of sales_amount
\* over the product's records.
C10_PeriodsDisjoint ==
  Returned("calculate_ytd_metrics") =>
    /\ DayCount(windows.p1ytd.end) < DayCount(windows.pytd.start)
    /\ DayCount(windows.pytd.end) < DayCount(windows.ytd.start)
    /\ \A i \in Rows(df) :
         Cardinality({ n \in Periods : Within(Get(df, i, "date"), PeriodOf(n)) }) <= 1
    /\ \A i \in Rows(result) :
         Get(result, i, "ytd_sales").num + Get(result, i, "pytd_sales").num
           + Get(result, i, "p1ytd_sales").num
           <= SumOver({ k \in Rows(df) :
                          Get(df, k, "product_name") = Get(result, i, "product_name") },
                      "sales_amount")

====
